---- MODULE Spec2Model ----
(***************************************************************************)
(* Model of the RAG query pipeline of src/src/search.py.                   *)
(*                                                                         *)
(* Text is modelled as a finite sequence of tokens (TLA+ strings).  A      *)
(* token is an indivisible piece of text: a line fragment, a blank " " or  *)
(* a newline "\n".  Concatenation of Python strings is concatenation (\o)  *)
(* of token sequences, and "x in y" is contiguous sub-sequence.            *)
(***************************************************************************)
EXTENDS Integers, Sequences, FiniteSets, TLC

VARIABLES
    pc,                \* position inside search_prompt (or "idle" / "returned")
    question,          \* argument of search_prompt: None or a str
    vector_store,      \* local vector_store of search_prompt: constructed or not
    llm,               \* local llm of search_prompt: constructed or not
    results,           \* local results: sequence of (Document, score) pairs
    context,           \* local context
    formatted_prompt,  \* local formatted_prompt
    response,          \* response.content of the language-model reply
    exc,               \* exception in flight inside search_prompt
    retval,            \* value returned by search_prompt to its caller
    escaped,           \* TRUE when an exception left search_prompt
    printed,           \* lines printed by the current call
    trace,             \* collaborator invocations of the current call, in order
    search_query,      \* query handed to similarity_search_with_score
    search_k,          \* k handed to similarity_search_with_score
    llm_prompt,        \* prompt handed to llm.invoke
    store_returned,    \* what similarity_search_with_score returned
    cause,             \* exception a collaborator raised (__cause__ once wrapped)
    \* chat.py, main
    main_pc,           \* position inside main
    chain,             \* local chain: value of the initialize-only call
    lines_read,        \* lines input() has returned so far, as typed
    asked,             \* questions main has passed to search_prompt, in order
    answers,           \* values those calls returned, in order
    stdout,            \* lines main has printed
    end_reason,        \* why main left its loop
    main_escaped,      \* TRUE when an exception left main
    \* ingest.py, ingest_pdf and the command entry point
    ing_pc,            \* position inside ingest_pdf / the entry point
    path_exists,       \* os.path.exists(PDF_PATH)
    documents,         \* local documents of ingest_pdf
    chunks,            \* local chunks of ingest_pdf
    stored,            \* documents= handed to PGVector.from_documents
    ing_trace,         \* collaborator invocations of ingest_pdf, in order
    ing_ret,           \* value returned by ingest_pdf (-1: none)
    ing_exc,           \* exception that left ingest_pdf
    ing_cause,         \* exception a collaborator raised inside ingest_pdf
    ing_printed        \* lines printed by ingest_pdf and the entry point

queryVars ==
    << pc, question, vector_store, llm, results, context, formatted_prompt,
       response, exc, retval, escaped, printed, trace, search_query, search_k,
       llm_prompt, store_returned, cause >>

chatVars ==
    << main_pc, chain, lines_read, asked, answers, stdout, end_reason,
       main_escaped >>

ingestVars ==
    << ing_pc, path_exists, documents, chunks, stored, ing_trace, ing_ret,
       ing_exc, ing_cause, ing_printed >>

vars ==
    << queryVars, chatVars, ingestVars >>

---------------------------------------------------------------------------
(* Bounds of the model                                                     *)

MaxResults ==
    3

MaxContentLen ==
    1

MaxLen ==
    2

MaxQuestionLen ==
    2

MaxStoreResults ==
    2

---------------------------------------------------------------------------
(* Text helpers                                                            *)

Texts(alphabet, n) ==
    UNION { [1..k -> alphabet] : k \in 0..n }

\* Python: sub in text
Contains(text, sub) ==
    \E i \in 0..(Len(text) - Len(sub)) :
        SubSeq(text, i + 1, i + Len(sub)) = sub

\* Python: text.count(sub) for a one-token sub (occurrences cannot overlap)
Count(text, sub) ==
    Cardinality({ i \in 0..(Len(text) - Len(sub)) :
                    SubSeq(text, i + 1, i + Len(sub)) = sub })

\* Python: text.endswith(sub)
EndsWith(text, sub) ==
    /\ Len(sub) <= Len(text)
    /\ SubSeq(text, Len(text) - Len(sub) + 1, Len(text)) = sub

Whitespace ==
    { " ", "\n" }

RECURSIVE LStrip(_)
LStrip(text) ==
    IF text # << >> /\ Head(text) \in Whitespace
    THEN LStrip(Tail(text))
    ELSE text

RECURSIVE RStrip(_)
RStrip(text) ==
    IF text # << >> /\ text[Len(text)] \in Whitespace
    THEN RStrip(SubSeq(text, 1, Len(text) - 1))
    ELSE text

\* Python: str.strip()
Strip(text) ==
    RStrip(LStrip(text))

\* Python: sep.join(parts)
RECURSIVE Join(_, _)
Join(sep, parts) ==
    IF parts = << >> THEN << >>
    ELSE IF Len(parts) = 1 THEN parts[1]
    ELSE parts[1] \o sep \o Join(sep, Tail(parts))

RECURSIVE Flatten(_)
Flatten(seqs) ==
    IF seqs = << >> THEN << >>
    ELSE Head(seqs) \o Flatten(Tail(seqs))

---------------------------------------------------------------------------
(* PROMPT_TEMPLATE (search.py:60-85), parsed the way str.format parses it: *)
(* literal text and the two replacement fields.                            *)

Lit(t) ==
    [kind |-> "lit", text |-> t]

Field(name) ==
    [kind |-> "field", text |-> name]

RULE_LINE ==
    "Responda somente com base no CONTEXTO"

FALLBACK_EXAMPLE ==
    "Resposta: \"Não tenho informações"

FALLBACK_REST ==
    " necessárias para responder sua pergunta.\""

CLOSING_LINE ==
    "RESPONDA A \"PERGUNTA DO USUÁRIO\""

PROMPT_TEMPLATE_two_examples ==
    << Lit("\n"),
       Lit("CONTEXTO:"), Lit("\n"),
       Field("contexto"), Lit("\n"),
       Lit("\n"),
       Lit("REGRAS:"), Lit("\n"),
       Lit("- "), Lit(RULE_LINE), Lit("."), Lit("\n"),
       Lit("- Se a informação não estiver explicitamente no CONTEXTO, responda:"), Lit("\n"),
       Lit("  \"Não tenho informações necessárias para responder sua pergunta.\""), Lit("\n"),
       Lit("- Nunca invente ou use conhecimento externo."), Lit("\n"),
       Lit("- Nunca produza opiniões ou interpretações além do que está escrito."), Lit("\n"),
       Lit("\n"),
       Lit("EXEMPLOS DE PERGUNTAS FORA DO CONTEXTO:"), Lit("\n"),
       Lit("Pergunta: \"Qual é a capital da França?\""), Lit("\n"),
       Lit(FALLBACK_EXAMPLE), Lit(FALLBACK_REST), Lit("\n"),
       Lit("\n"),
       Lit("Pergunta: \"Quantos clientes temos em 2024?\""), Lit("\n"),
       Lit(FALLBACK_EXAMPLE), Lit(FALLBACK_REST), Lit("\n"),
       Lit("\n"),
       Lit("PERGUNTA DO USUÁRIO:"), Lit("\n"),
       Field("pergunta"), Lit("\n"),
       Lit("\n"),
       Lit(CLOSING_LINE), Lit("\n") >>

PROMPT_TEMPLATE ==
    << Lit("\n"),
       Lit("CONTEXTO:"), Lit("\n"),
       Field("contexto"), Lit("\n"),
       Lit("\n"),
       Lit("REGRAS:"), Lit("\n"),
       Lit("- "), Lit(RULE_LINE), Lit("."), Lit("\n"),
       Lit("- Se a informação não estiver explicitamente no CONTEXTO, responda:"), Lit("\n"),
       Lit("  \"Não tenho informações necessárias para responder sua pergunta.\""), Lit("\n"),
       Lit("- Nunca invente ou use conhecimento externo."), Lit("\n"),
       Lit("- Nunca produza opiniões ou interpretações além do que está escrito."), Lit("\n"),
       Lit("\n"),
       Lit("EXEMPLOS DE PERGUNTAS FORA DO CONTEXTO:"), Lit("\n"),
       Lit("Pergunta: \"Qual é a capital da França?\""), Lit("\n"),
       Lit(FALLBACK_EXAMPLE), Lit(FALLBACK_REST), Lit("\n"),
       Lit("\n"),
       Lit("Pergunta: \"Quantos clientes temos em 2024?\""), Lit("\n"),
       Lit(FALLBACK_EXAMPLE), Lit(FALLBACK_REST), Lit("\n"),
       Lit("\n"),
       Lit("Pergunta: \"Você acha isso bom ou ruim?\""), Lit("\n"),
       Lit(FALLBACK_EXAMPLE), Lit(FALLBACK_REST), Lit("\n"),
       Lit("\n"),
       Lit("PERGUNTA DO USUÁRIO:"), Lit("\n"),
       Field("pergunta"), Lit("\n"),
       Lit("\n"),
       Lit(CLOSING_LINE), Lit("\n") >>

\* The text a field of the template is written as: "{name}"
Braces(name) ==
    IF name = "contexto" THEN "{contexto}" ELSE "{pergunta}"

---------------------------------------------------------------------------
(* build_context (search.py:210-236)                                       *)

SEPARATOR ==
    << "\n", "\n" >>

\* context_parts = [doc.page_content for doc, _ in results]
context_parts(rs) ==
    [ i \in 1..Len(rs) |-> rs[i].page_content ]

\* a bug: joins with a single newline
build_context_single_newline(rs) ==
    Join(<< "\n" >>, context_parts(rs))

\* a bug: the results are walked last to first
build_context_reversed(rs) ==
    Join(SEPARATOR, [ i \in 1..Len(rs) |-> rs[Len(rs) + 1 - i].page_content ])

\* a bug: the separator is appended after every part instead of joined between
build_context_trailing_separator(rs) ==
    Flatten([ i \in 1..Len(rs) |-> rs[i].page_content \o SEPARATOR ])

build_context(rs) ==
    Join(SEPARATOR, context_parts(rs))

---------------------------------------------------------------------------
(* format_prompt (search.py:239-271)                                       *)

\* str.format: one pass over the parsed template; substituted values are
\* copied as they are and never scanned for fields again
Substitute(item, contexto, pergunta) ==
    IF item.kind = "lit" THEN << item.text >>
    ELSE IF item.text = "contexto" THEN contexto
    ELSE pergunta

RECURSIVE ReplaceToken(_, _, _)
ReplaceToken(text, tok, by) ==
    IF text = << >> THEN << >>
    ELSE (IF Head(text) = tok THEN by ELSE << Head(text) >>)
         \o ReplaceToken(Tail(text), tok, by)

\* a bug: two successive textual replacements, so that a "{pergunta}" inside
\* the context is itself replaced by the question
format_prompt_replace(contexto, pergunta) ==
    LET raw == [ i \in 1..Len(PROMPT_TEMPLATE) |->
                   IF PROMPT_TEMPLATE[i].kind = "lit"
                   THEN PROMPT_TEMPLATE[i].text
                   ELSE Braces(PROMPT_TEMPLATE[i].text) ]
    IN  ReplaceToken(ReplaceToken(raw, "{contexto}", contexto),
                     "{pergunta}", pergunta)

\* a bug: the two arguments are bound to the wrong fields
format_prompt_swapped(contexto, pergunta) ==
    Flatten([ i \in 1..Len(PROMPT_TEMPLATE) |->
                Substitute(PROMPT_TEMPLATE[i], pergunta, contexto) ])

format_prompt(contexto, pergunta) ==
    Flatten([ i \in 1..Len(PROMPT_TEMPLATE) |->
                Substitute(PROMPT_TEMPLATE[i], contexto, pergunta) ])

---------------------------------------------------------------------------
(* Values of the query pipeline                                            *)

None ==
    [kind |-> "None", text |-> << >>]

True ==
    [kind |-> "True", text |-> << >>]

Str(t) ==
    [kind |-> "str", text |-> t]

Unset ==
    [kind |-> "unset", text |-> << >>]

NoExc ==
    [type |-> "none", msg |-> << >>]

\* search.py:56
SIMILARITY_K ==
    10

QuestionTokens ==
    { " ", "\n", "Qual o faturamento?" }

Questions ==
    { None } \cup { Str(t) : t \in Texts(QuestionTokens, MaxQuestionLen) }

\* what the vector store may hold: (Document, score) pairs, scores in tenths
StoreDocs ==
    { [page_content |-> << "O faturamento foi de 10 milhões." >>, score |-> 9],
      [page_content |-> << "A empresa possui 150 funcionários." >>, score |-> 8] }

StoreResults ==
    UNION { [1..k -> StoreDocs] : k \in 0..MaxStoreResults }

\* a collection holding more chunks than SIMILARITY_K
LongRanking ==
    [ i \in 1..(SIMILARITY_K + 1) |->
        [page_content |-> << IF i % 2 = 1
                             THEN "O faturamento foi de 10 milhões."
                             ELSE "A empresa possui 150 funcionários." >>,
         score |-> IF i % 2 = 1 THEN 9 ELSE 8] ]

\* the chunks of the collection ranked for a query, most similar first
Rankings ==
    StoreResults \cup { LongRanking }

\* the store's scored similarity search: the first k of the ranking
similarity_search_with_score(ranking, k) ==
    SubSeq(ranking, 1, IF Len(ranking) < k THEN Len(ranking) ELSE k)

\* a bug: the results are put in reverse order before they are returned
search_similar_reversed(returned) ==
    [ i \in 1..Len(returned) |-> returned[Len(returned) + 1 - i] ]

\* search.py:206-207  results = vector_store.similarity_search_with_score(
\* query, k=SIMILARITY_K); return results
search_similar(returned) ==
    returned

FALLBACK_SENTENCE ==
    "Não tenho informações necessárias para responder sua pergunta."

\* what the language model may answer (response.content)
Responses ==
    { << "O faturamento foi de 10 milhões de reais." >>,
      << "O faturamento foi de 10 milhões de reais.", "\n" >>,
      << FALLBACK_SENTENCE >>,
      << >> }

\* str(e) of the errors the external collaborators may raise
ErrorMessages ==
    { << "Connection", " refused" >>,
      << "could not ", "connect", " to server" >>,
      << "timeout" >> }

\* the errors the external collaborators may raise: any Exception, among
\* them the built-in ConnectionError (a subclass of Exception)
Raisable ==
    [type : { "Exception", "ConnectionError" }, msg : ErrorMessages]

\* Python: str.lower(), token by token
LowerToken(tok) ==
    CASE tok = "Connection" -> "connection"
      [] tok = "SAIR" -> "sair"
      [] tok = "Exit" -> "exit"
      [] tok = "Quit" -> "quit"
      [] tok = "Qual o faturamento?" -> "qual o faturamento?"
      [] OTHER -> tok

Lower(text) ==
    [ i \in 1..Len(text) |-> LowerToken(text[i]) ]

\* Python: word in text, for a word that may lie inside a token
TokenHas(tok, word) ==
    \/ tok = word
    \/ word = "connect" /\ tok = "connection"

HasWord(text, word) ==
    \E i \in 1..Len(text) : TokenHas(text[i], word)

\* Python: an except clause for class `clause` catches an exception of class
\* `type` when type is clause or a subclass of it
Catches(clause, type) ==
    \/ clause = type
    \/ /\ clause = "Exception"
       /\ type \in { "ConnectionError", "FileNotFoundError", "ValueError",
                     "EOFError" }

CONNECTION_MESSAGE ==
    << "Erro ao conectar ao banco de dados. Verifique se está rodando." >>

\* a bug: the except clause of get_vector_store lets the error through as it is
get_vector_store_except_reraise(e) ==
    e

\* get_vector_store, its except clause (search.py:148-153)
get_vector_store_except(e) ==
    IF HasWord(Lower(e.msg), "connect") \/ HasWord(Lower(e.msg), "connection")
    THEN [type |-> "ConnectionError", msg |-> CONNECTION_MESSAGE]
    ELSE e

\* a bug: the question is compared with "" without being stripped
is_blank_no_strip(text) ==
    text = << >>

\* search.py:324  not question.strip()
is_blank(text) ==
    Strip(text) = << >>

\* a bug: a missing question is treated like a blank one
question_branch_none_as_blank(q) ==
    IF q.kind = "None" \/ is_blank(q.text) THEN "blank" ELSE "answer"

\* search.py:320-325  which way search_prompt goes once the clients exist
question_branch(q) ==
    IF q.kind = "None" THEN "init_only"
    ELSE IF is_blank(q.text) THEN "blank"
    ELSE "answer"

\* a bug: the answer is trimmed before it is returned
return_value_stripped(content) ==
    Str(Strip(content))

\* search.py:334  return response.content
return_value(content) ==
    Str(content)

\* a bug: only ConnectionError is handled
handler_connection_only(e) ==
    IF Catches("ConnectionError", e.type) THEN "connection" ELSE "unhandled"

\* a bug: the clause for Exception comes first and takes every error
handler_generic_first(e) ==
    IF Catches("Exception", e.type) THEN "generic"
    ELSE IF Catches("ConnectionError", e.type) THEN "connection"
    ELSE "unhandled"

\* search.py:336-341  the except clauses of search_prompt, first match wins
handler(e) ==
    IF Catches("ConnectionError", e.type) THEN "connection"
    ELSE IF Catches("Exception", e.type) THEN "generic"
    ELSE "unhandled"

---------------------------------------------------------------------------
(* search_prompt (search.py:274-341), one action per step                  *)

Cleared ==
    /\ vector_store = FALSE
    /\ llm = FALSE
    /\ results = << >>
    /\ context = << >>
    /\ formatted_prompt = << >>
    /\ response = << >>
    /\ exc = NoExc
    /\ retval = Unset
    /\ escaped = FALSE
    /\ printed = << >>
    /\ trace = << >>
    /\ search_query = << >>
    /\ search_k = 0
    /\ llm_prompt = << >>
    /\ store_returned = << >>
    /\ cause = NoExc

\* main not started
ChatIdle ==
    /\ main_pc = "idle"
    /\ chain = Unset
    /\ lines_read = << >>
    /\ asked = << >>
    /\ answers = << >>
    /\ stdout = << >>
    /\ end_reason = "none"
    /\ main_escaped = FALSE

NotLoaded ==
    [loaded |-> FALSE, pages |-> << >>]

\* ingest_pdf not started
IngestIdle ==
    /\ ing_pc = "idle"
    /\ path_exists \in BOOLEAN
    /\ documents = NotLoaded
    /\ chunks = << >>
    /\ stored = << >>
    /\ ing_trace = << >>
    /\ ing_ret = -1
    /\ ing_exc = NoExc
    /\ ing_cause = NoExc
    /\ ing_printed = << >>

IngestOff ==
    /\ IngestIdle
    /\ path_exists = TRUE

Init ==
    /\ pc = "idle"
    /\ question = None
    /\ Cleared
    /\ ChatIdle
    /\ IngestOff

\* a bug: the error is noted and the pipeline goes on to the language model
Raise_goes_on(orig, e) ==
    /\ exc' = e
    /\ cause' = orig
    /\ pc' = "invoke"

\* an exception raised inside the try block of search_prompt: orig is what
\* the collaborator raised, e what reaches the except clauses
Raise(orig, e) ==
    /\ exc' = e
    /\ cause' = orig
    /\ pc' = "except"

\* a bug: the question is looked at before any client is constructed
Call_validates_first(q) ==
    /\ pc \in { "idle", "returned" }
    /\ pc' = "check_question"
    /\ question' = q
    /\ vector_store' = FALSE
    /\ llm' = FALSE
    /\ results' = << >>
    /\ context' = << >>
    /\ formatted_prompt' = << >>
    /\ response' = << >>
    /\ exc' = NoExc
    /\ retval' = Unset
    /\ escaped' = FALSE
    /\ printed' = << >>
    /\ trace' = << >>
    /\ search_query' = << >>
    /\ search_k' = 0
    /\ llm_prompt' = << >>
    /\ store_returned' = << >>
    /\ cause' = NoExc

\* the caller calls search_prompt(q): every local starts afresh
Call(q) ==
    /\ pc \in { "idle", "returned" }
    /\ pc' = "get_embeddings"
    /\ question' = q
    /\ vector_store' = FALSE
    /\ llm' = FALSE
    /\ results' = << >>
    /\ context' = << >>
    /\ formatted_prompt' = << >>
    /\ response' = << >>
    /\ exc' = NoExc
    /\ retval' = Unset
    /\ escaped' = FALSE
    /\ printed' = << >>
    /\ trace' = << >>
    /\ search_query' = << >>
    /\ search_k' = 0
    /\ llm_prompt' = << >>
    /\ store_returned' = << >>
    /\ cause' = NoExc

\* search.py:316 -> 141  embeddings = get_embeddings(), inside the try of
\* get_vector_store
GetEmbeddings ==
    /\ pc = "get_embeddings"
    /\ trace' = Append(trace, "OpenAIEmbeddings")
    /\ \/ /\ pc' = "pgvector"
          /\ exc' = exc
          /\ cause' = cause
       \/ \E e \in Raisable : Raise(e, get_vector_store_except(e))
    /\ UNCHANGED << question, vector_store, llm, results, context,
                    formatted_prompt, response, retval, escaped, printed,
                    search_query, search_k, llm_prompt,
                    store_returned, chatVars, ingestVars >>

\* search.py:142-147  vector_store = PGVector(...), inside the same try
NewPGVector ==
    /\ pc = "pgvector"
    /\ trace' = Append(trace, "PGVector")
    /\ \/ /\ pc' = "get_llm"
          /\ vector_store' = TRUE
          /\ exc' = exc
          /\ cause' = cause
       \/ /\ \E e \in Raisable : Raise(e, get_vector_store_except(e))
          /\ vector_store' = vector_store
    /\ UNCHANGED << question, llm, results, context, formatted_prompt,
                    response, retval, escaped, printed, search_query,
                    search_k, llm_prompt,
                    store_returned, chatVars, ingestVars >>

\* search.py:317  llm = get_llm()
GetLlm ==
    /\ pc = "get_llm"
    /\ trace' = Append(trace, "ChatOpenAI")
    /\ \/ /\ pc' = "check_question"
          /\ llm' = TRUE
          /\ exc' = exc
          /\ cause' = cause
       \/ /\ \E e \in Raisable : Raise(e, e)
          /\ llm' = llm
    /\ UNCHANGED << question, vector_store, results, context,
                    formatted_prompt, response, retval, escaped, printed,
                    search_query, search_k, llm_prompt,
                    store_returned, chatVars, ingestVars >>

\* search.py:320-325  the two early returns
CheckQuestion ==
    /\ pc = "check_question"
    /\ LET branch == question_branch(question)
       IN  \/ /\ branch = "init_only"
              /\ retval' = True
              /\ pc' = "returned"
           \/ /\ branch = "blank"
              /\ retval' = None
              /\ pc' = "returned"
           \/ /\ branch = "answer"
              /\ retval' = retval
              /\ pc' = "search_similar"
    /\ UNCHANGED << question, vector_store, llm, results, context,
                    formatted_prompt, response, exc, escaped, printed, trace,
                    search_query, search_k, llm_prompt,
                    store_returned, cause, chatVars, ingestVars >>

\* search.py:328 -> 206  results = search_similar(vector_store, question)
SearchSimilar ==
    /\ pc = "search_similar"
    /\ trace' = Append(trace, "similarity_search_with_score")
    /\ search_query' = question.text
    /\ search_k' = SIMILARITY_K
    /\ \/ /\ \E r \in Rankings :
                LET returned == similarity_search_with_score(r, SIMILARITY_K)
                IN  /\ store_returned' = returned
                    /\ results' = search_similar(returned)
          /\ pc' = "build_context"
          /\ exc' = exc
          /\ cause' = cause
       \/ /\ \E e \in Raisable : Raise(e, e)
          /\ results' = results
          /\ store_returned' = store_returned
    /\ UNCHANGED << question, vector_store, llm, context, formatted_prompt,
                    response, retval, escaped, printed, llm_prompt,
                    chatVars, ingestVars >>

\* search.py:329  context = build_context(results)
BuildContext ==
    /\ pc = "build_context"
    /\ context' = build_context(results)
    /\ pc' = "format_prompt"
    /\ UNCHANGED << question, vector_store, llm, results, formatted_prompt,
                    response, exc, retval, escaped, printed, trace,
                    search_query, search_k, llm_prompt,
                    store_returned, cause, chatVars, ingestVars >>

\* a bug: the answers given earlier in the session are added to the context
FormatPrompt_with_history ==
    /\ pc = "format_prompt"
    /\ formatted_prompt' =
         format_prompt(context \o Flatten([ i \in 1..Len(answers) |->
                                               answers[i].text ]),
                       question.text)
    /\ pc' = "invoke"
    /\ UNCHANGED << question, vector_store, llm, results, context, response,
                    exc, retval, escaped, printed, trace, search_query,
                    search_k, llm_prompt,
                    store_returned, cause, chatVars, ingestVars >>

\* search.py:330  formatted_prompt = format_prompt(context, question)
FormatPrompt ==
    /\ pc = "format_prompt"
    /\ formatted_prompt' = format_prompt(context, question.text)
    /\ pc' = "invoke"
    /\ UNCHANGED << question, vector_store, llm, results, context, response,
                    exc, retval, escaped, printed, trace, search_query,
                    search_k, llm_prompt,
                    store_returned, cause, chatVars, ingestVars >>

\* search.py:333  response = llm.invoke(formatted_prompt)
Invoke ==
    /\ pc = "invoke"
    /\ trace' = Append(trace, "invoke")
    /\ llm_prompt' = formatted_prompt
    /\ \/ /\ \E r \in Responses : response' = r
          /\ pc' = "return_content"
          /\ exc' = exc
          /\ cause' = cause
       \/ /\ \E e \in Raisable : Raise(e, e)
          /\ response' = response
    /\ UNCHANGED << question, vector_store, llm, results, context,
                    formatted_prompt, retval, escaped, printed, search_query,
                    search_k,
                    store_returned, chatVars, ingestVars >>

\* search.py:334  return response.content
ReturnContent ==
    /\ pc = "return_content"
    /\ retval' = return_value(response)
    /\ pc' = "returned"
    /\ UNCHANGED << question, vector_store, llm, results, context,
                    formatted_prompt, response, exc, escaped, printed, trace,
                    search_query, search_k, llm_prompt,
                    store_returned, cause, chatVars, ingestVars >>

\* search.py:336-341  the except clauses: print and return None; an
\* exception no clause catches leaves search_prompt
Except ==
    /\ pc = "except"
    /\ LET h == handler(exc)
       IN  \/ /\ h = "connection"
              /\ printed' = Append(printed, << "Erro: " >> \o exc.msg)
              /\ retval' = None
              /\ escaped' = escaped
           \/ /\ h = "generic"
              /\ printed' = Append(printed,
                     << "Erro ao comunicar com serviço externo. Tente novamente. (" >>
                     \o exc.msg \o << ")" >>)
              /\ retval' = None
              /\ escaped' = escaped
           \/ /\ h = "unhandled"
              /\ printed' = printed
              /\ retval' = retval
              /\ escaped' = TRUE
    /\ pc' = "returned"
    /\ UNCHANGED << question, vector_store, llm, results, context,
                    formatted_prompt, response, exc, trace, search_query,
                    search_k, llm_prompt,
                    store_returned, cause, chatVars, ingestVars >>

\* a caller of search_prompt, any question
CallAny ==
    /\ \E q \in Questions : Call(q)
    /\ UNCHANGED << chatVars, ingestVars >>

Next ==
    \/ CallAny
    \/ GetEmbeddings
    \/ NewPGVector
    \/ GetLlm
    \/ CheckQuestion
    \/ SearchSimilar
    \/ BuildContext
    \/ FormatPrompt
    \/ Invoke
    \/ ReturnContent
    \/ Except

Spec ==
    Init /\ [][Next]_vars

---------------------------------------------------------------------------
(* build_context on its own: every bounded result sequence                 *)

ContentTokens ==
    { "a", "\n" }

Scores ==
    { 1, 2 }

SearchResults ==
    [page_content : Texts(ContentTokens, MaxContentLen), score : Scores]

ResultSeqs ==
    UNION { [1..n -> SearchResults] : n \in 0..MaxResults }

InitContext ==
    /\ pc = "build_context"
    /\ question = Str(<< >>)
    /\ vector_store = FALSE
    /\ llm = FALSE
    /\ results \in ResultSeqs
    /\ context = << >>
    /\ formatted_prompt = << >>
    /\ response = << >>
    /\ exc = NoExc
    /\ retval = Unset
    /\ escaped = FALSE
    /\ printed = << >>
    /\ trace = << >>
    /\ search_query = << >>
    /\ search_k = 0
    /\ llm_prompt = << >>
    /\ store_returned = << >>
    /\ cause = NoExc
    /\ ChatIdle
    /\ IngestOff

NextContext ==
    BuildContext

SpecContext ==
    InitContext /\ [][NextContext]_vars

---------------------------------------------------------------------------
(* format_prompt on its own: every bounded (context, question) pair.       *)
(* Both fields of the template stand alone on their line, and neither the  *)
(* rule line nor the example pattern holds a newline, so no occurrence of  *)
(* them can straddle the border between template text and an argument:     *)
(* counting them token by token is exact.                                  *)

PromptTokens ==
    { "a", "\n", "{pergunta}", RULE_LINE, FALLBACK_EXAMPLE }

InitPrompt ==
    /\ pc = "format_prompt"
    /\ question \in { Str(t) : t \in Texts(PromptTokens, MaxLen) }
    /\ vector_store = FALSE
    /\ llm = FALSE
    /\ results = << >>
    /\ context \in Texts(PromptTokens, MaxLen)
    /\ formatted_prompt = << >>
    /\ response = << >>
    /\ exc = NoExc
    /\ retval = Unset
    /\ escaped = FALSE
    /\ printed = << >>
    /\ trace = << >>
    /\ search_query = << >>
    /\ search_k = 0
    /\ llm_prompt = << >>
    /\ store_returned = << >>
    /\ cause = NoExc
    /\ ChatIdle
    /\ IngestOff

NextPrompt ==
    FormatPrompt

SpecPrompt ==
    InitPrompt /\ [][NextPrompt]_vars

---------------------------------------------------------------------------
(* Properties of search_prompt, checked under Spec                         *)

InTrace(op) ==
    \E i \in 1..Len(trace) : trace[i] = op

AllWhitespace(text) ==
    \A i \in 1..Len(text) : text[i] \in Whitespace

C2_BlankQuestion ==
    (question.kind = "str" /\ AllWhitespace(question.text)) =>
        /\ ~InTrace("similarity_search_with_score")
        /\ ~InTrace("invoke")
        /\ pc = "returned" => retval = None

\* a whitespace-only question, all three clients constructed
C2_Witness ==
    /\ pc = "returned"
    /\ question = Str(<< " ", " " >>)
    /\ vector_store
    /\ llm
    /\ exc = NoExc
    /\ retval = None

\* C3: without a question the call returns True whenever the three clients
\* were constructed, and never invokes the similarity search or the model.
C3_InitializeOnly ==
    question = None =>
        /\ ~InTrace("similarity_search_with_score")
        /\ ~InTrace("invoke")
        /\ (pc = "returned" /\ vector_store /\ llm) => retval = True

C3_Witness ==
    /\ pc = "returned"
    /\ question = None
    /\ trace = << "OpenAIEmbeddings", "PGVector", "ChatOpenAI" >>
    /\ retval = True

\* C4: when construction, retrieval and generation all succeed for a
\* non-blank question, the call returns the model's response text unmodified,
\* whatever the retrieved results.
C4_ReturnsResponse ==
    ( /\ pc = "returned"
      /\ question.kind = "str"
      /\ ~AllWhitespace(question.text)
      /\ exc = NoExc ) =>
        /\ InTrace("invoke")
        /\ retval = [kind |-> "str", text |-> response]

\* the model answers the fallback sentence on an empty retrieval
C4_Witness ==
    /\ pc = "returned"
    /\ question.kind = "str"
    /\ results = << >>
    /\ InTrace("invoke")
    /\ exc = NoExc
    /\ retval = [kind |-> "str", text |-> << FALLBACK_SENTENCE >>]

---------------------------------------------------------------------------
(* Properties of build_context, checked under SpecContext                  *)

\* number of tokens of the contents of the first n results
RECURSIVE ContentLen(_, _)
ContentLen(rs, n) ==
    IF n = 0 THEN 0
    ELSE ContentLen(rs, n - 1) + Len(rs[n].page_content)

\* where the content of result i has to start (0-based)
Offset(rs, i) ==
    ContentLen(rs, i - 1) + Len(SEPARATOR) * (i - 1)

ContentAt(rs, i) ==
    SubSeq(context, Offset(rs, i) + 1,
           Offset(rs, i) + Len(rs[i].page_content))

Built ==
    pc = "format_prompt"

\* C5: the output is content[1] + "\n\n" + content[2] + ...: the contents in
\* input order, exactly N-1 separators for N >= 1 results, and no influence
\* of the scores.
C5_JoinedInOrder ==
    Built =>
        LET N == Len(results)
        IN  /\ Len(context) = IF N = 0 THEN 0
                              ELSE ContentLen(results, N) + 2 * (N - 1)
            /\ \A i \in 1..N : ContentAt(results, i) = results[i].page_content
            /\ \A i \in 1..(N - 1) :
                   SubSeq(context, Offset(results, i + 1) - 1,
                          Offset(results, i + 1)) = << "\n", "\n" >>
            /\ \A sc \in [1..N -> Scores] :
                   build_context([ i \in 1..N |->
                       [page_content |-> results[i].page_content,
                        score |-> sc[i]] ]) = context

\* three results, not ordered by score
C5_Witness ==
    /\ Built
    /\ Len(results) = 3
    /\ results[1].score < results[2].score
    /\ results[2].score > results[3].score
    /\ context = << "a", "\n", "\n", "\n", "\n", "\n", "a" >>

\* C6: the output preserves the relative order of the results: the content of
\* result i lies wholly before the content of result i+1.
C6_PreservesOrder ==
    Built =>
        \A i \in 1..(Len(results) - 1) :
            LET ci == results[i].page_content
                cj == results[i + 1].page_content
            IN  \E p \in 0..(Len(context) - Len(ci)) :
                \E q \in 0..(Len(context) - Len(cj)) :
                    /\ SubSeq(context, p + 1, p + Len(ci)) = ci
                    /\ SubSeq(context, q + 1, q + Len(cj)) = cj
                    /\ p < q
                    /\ p + Len(ci) <= q

C6_Witness ==
    /\ Built
    /\ Len(results) = 3
    /\ results[1].page_content = << "\n" >>
    /\ results[2].page_content = << "a" >>
    /\ results[3].page_content = << >>

\* C7: no separator for at most one result: the empty sequence gives the empty
\* string and a single result gives exactly its content.
C7_NoSeparatorUpToOne ==
    Built =>
        /\ Len(results) = 0 => context = << >>
        /\ Len(results) = 1 => context = results[1].page_content

C7_Witness ==
    /\ Built
    /\ Len(results) = 1
    /\ results[1].page_content = << "a" >>
    /\ context = << "a" >>

---------------------------------------------------------------------------
(* Properties of format_prompt, checked under SpecPrompt                   *)

Formatted ==
    pc = "invoke"

\* C8: for every (context, question) pair the prompt contains the context
\* verbatim, the question verbatim and the rule line "Responda somente com
\* base no CONTEXTO".
C8_ContainsVerbatim ==
    Formatted =>
        /\ Contains(formatted_prompt, context)
        /\ Contains(formatted_prompt, question.text)
        /\ Contains(formatted_prompt, << "Responda somente com base no CONTEXTO" >>)

\* a context that itself spells the question field
C8_Witness ==
    /\ Formatted
    /\ context = << "{pergunta}", "a" >>
    /\ question.text = << "a", "\n" >>

\* C9 as stated: for every (context, question) pair the prompt holds exactly
\* three occurrences of the fallback-answer example pattern.
C9_ExactlyThree ==
    Formatted =>
        Count(formatted_prompt, << "Resposta: \"Não tenho informações" >>) = 3

\* C9 as amended: the prompt holds the three occurrences of the template plus
\* those of the context and of the question; exactly three when neither the
\* context nor the question contains the pattern.
C9_ThreePlusInputs ==
    Formatted =>
        LET pat == << "Resposta: \"Não tenho informações" >>
        IN  /\ Count(formatted_prompt, pat)
                 = 3 + Count(context, pat) + Count(question.text, pat)
            /\ (~Contains(context, pat) /\ ~Contains(question.text, pat))
                 => Count(formatted_prompt, pat) = 3

\* a context quoting the pattern once
C9_Witness ==
    /\ Formatted
    /\ context = << "Resposta: \"Não tenho informações", "a" >>
    /\ question.text = << "a" >>
    /\ Count(formatted_prompt, << "Resposta: \"Não tenho informações" >>) = 4

\* the context sits right under the CONTEXTO: heading and the rules follow it
ContextUnderHeading ==
    /\ SubSeq(formatted_prompt, 1, 3) = << "\n", "CONTEXTO:", "\n" >>
    /\ SubSeq(formatted_prompt, 4, 3 + Len(context)) = context
    /\ SubSeq(formatted_prompt, 4 + Len(context), 7 + Len(context))
           = << "\n", "\n", "REGRAS:", "\n" >>

\* C10 as stated: the context is under the CONTEXTO: heading before the rules
\* and examples, and the question is at the end of the prompt.
C10_QuestionAtEnd ==
    Formatted =>
        /\ ContextUnderHeading
        /\ EndsWith(formatted_prompt, question.text)

\* C10 as amended: the context is under the CONTEXTO: heading before the
\* rules and examples, and the question is inserted verbatim under the last
\* heading, PERGUNTA DO USUÁRIO:, followed only by a blank line and the fixed
\* closing line.
C10_QuestionInLastSection ==
    Formatted =>
        /\ ContextUnderHeading
        /\ EndsWith(formatted_prompt,
               << "Resposta: \"Não tenho informações",
                  " necessárias para responder sua pergunta.\"", "\n", "\n",
                  "PERGUNTA DO USUÁRIO:", "\n" >>
               \o question.text
               \o << "\n", "\n", "RESPONDA A \"PERGUNTA DO USUÁRIO\"", "\n" >>)
        /\ Len(formatted_prompt)
               = Len(PROMPT_TEMPLATE) - 2 + Len(context) + Len(question.text)

C10_Witness ==
    /\ Formatted
    /\ context = << "a", "\n" >>
    /\ question.text = << "\n", "a" >>

---------------------------------------------------------------------------
(* C11: search_similar                                                     *)

\* search_similar has returned to search_prompt and nothing has failed since
Searched ==
    pc \in { "build_context", "format_prompt", "invoke", "return_content" }

\* C11: within one call of search_prompt the store's scored similarity search
\* is invoked at most once, and once search_similar has returned it was
\* invoked exactly once, with the question as it was given and k = 10, and
\* the results are the very sequence the store returned: same elements, same
\* order, nothing dropped, at most k of them.
C11_StoreResultUnchanged ==
    /\ Count(trace, << "similarity_search_with_score" >>) <= 1
    /\ Searched =>
         /\ Count(trace, << "similarity_search_with_score" >>) = 1
         /\ search_query = question.text
         /\ search_k = 10
         /\ results = store_returned
         /\ Len(results) <= 10

\* the collection held more than k chunks and the question had surrounding
\* whitespace: the ten returned by the store are the results
C11_Witness ==
    /\ pc = "build_context"
    /\ Len(results) = 10
    /\ results[1] # results[2]
    /\ question.text # Strip(question.text)

---------------------------------------------------------------------------
(* chat.py: main (chat.py:44-121), driving search_prompt                   *)

MaxLines ==
    2

\* chat.py:36
EXIT_COMMANDS ==
    { << "sair" >>, << "exit" >>, << "quit" >> }

INIT_FAILED ==
    << "Não foi possível iniciar o chat. Verifique os erros de inicialização." >>

HEADER ==
    << "Faça sua pergunta:", "\n" >>

INPUT_PROMPT ==
    << "PERGUNTA: " >>

ERROR_LINE ==
    << "RESPOSTA: Erro ao processar sua pergunta. Tente novamente.", "\n" >>

\* the lines a user may type
ChatLines ==
    { << >>,
      << " " >>,
      << "Qual o faturamento?" >>,
      << " ", "Qual o faturamento?", " " >>,
      << "sair" >>,
      << " ", "SAIR", " " >>,
      << "Exit" >>,
      << "quit" >>,
      << "sair", " ", "agora" >> }

\* the exceptions input() may raise while it waits for a line
InputErrors ==
    { "EOFError", "KeyboardInterrupt" }

\* Python: the truth value of None, True and str
truthy(v) ==
    \/ v.kind = "True"
    \/ v.kind = "str" /\ v.text # << >>

\* a bug: the return after the failure message is missing
init_branch_always_loop(v) ==
    "loop"

\* chat.py:85-90  if not chain: print(...); return
init_branch(v) ==
    IF truthy(v) THEN "loop" ELSE "failed"

\* a bug: a line that holds an exit word among other text ends the loop
input_branch_contains(line) ==
    IF Strip(line) = << >> THEN "blank"
    ELSE IF \E i \in 1..Len(line) : << Lower(line)[i] >> \in EXIT_COMMANDS
         THEN "exit"
    ELSE "ask"

\* a bug: the test for an empty line is missing
input_branch_blank_asked(line) ==
    IF Lower(Strip(line)) \in EXIT_COMMANDS THEN "exit" ELSE "ask"

\* a bug: the test for an exit command is missing
input_branch_no_exit(line) ==
    IF Strip(line) = << >> THEN "blank" ELSE "ask"

\* chat.py:97-108  question = input(...).strip(); empty: continue; exit
\* command, whatever its case: break
input_branch(line) ==
    IF Strip(line) = << >> THEN "blank"
    ELSE IF Lower(Strip(line)) \in EXIT_COMMANDS THEN "exit"
    ELSE "ask"

\* a bug: only None counts as a failure, an empty answer is printed
answer_line_none_only(v) ==
    IF v.kind # "None"
    THEN << "RESPOSTA: " >> \o v.text \o << "\n" >>
    ELSE ERROR_LINE

\* a bug: a failed question gets an empty answer instead of the error line
answer_line_empty_on_failure(v) ==
    IF truthy(v)
    THEN << "RESPOSTA: " >> \o v.text \o << "\n" >>
    ELSE << "RESPOSTA: ", "\n" >>

\* chat.py:114-117  the line printed for a question
answer_line(v) ==
    IF truthy(v)
    THEN << "RESPOSTA: " >> \o v.text \o << "\n" >>
    ELSE ERROR_LINE

\* a bug: the loop has no except clause for EOFError
input_handler_no_eof(type) ==
    IF Catches("KeyboardInterrupt", type) THEN "interrupt" ELSE "unhandled"

\* chat.py:98-100, 119-121  the except clauses around input()
input_handler(type) ==
    IF Catches("EOFError", type) THEN "break"
    ELSE IF Catches("KeyboardInterrupt", type) THEN "interrupt"
    ELSE "unhandled"

\* the call of search_prompt is over: its frame and locals are gone
Discard ==
    /\ pc' = pc
    /\ question' = question
    /\ vector_store' = FALSE
    /\ llm' = FALSE
    /\ results' = << >>
    /\ context' = << >>
    /\ formatted_prompt' = << >>
    /\ response' = << >>
    /\ exc' = NoExc
    /\ retval' = Unset
    /\ escaped' = FALSE
    /\ printed' = << >>
    /\ trace' = << >>
    /\ search_query' = << >>
    /\ search_k' = 0
    /\ llm_prompt' = << >>
    /\ store_returned' = << >>
    /\ cause' = NoExc

\* chat.py:83  chain = search_prompt()
MainStart ==
    /\ main_pc = "idle"
    /\ Call(None)
    /\ main_pc' = "init_call"
    /\ UNCHANGED << chain, lines_read, asked, answers, stdout, end_reason,
                    main_escaped, ingestVars >>

\* chat.py:83-90  the initialize-only call has returned
MainCheckChain ==
    /\ main_pc = "init_call"
    /\ pc = "returned"
    /\ IF escaped
       THEN /\ main_escaped' = TRUE
            /\ end_reason' = "raised"
            /\ main_pc' = "done"
            /\ UNCHANGED << chain, stdout >>
       ELSE /\ chain' = retval
            /\ main_escaped' = main_escaped
            /\ IF init_branch(retval) = "failed"
               THEN /\ stdout' = Append(stdout, INIT_FAILED)
                    /\ end_reason' = "init_failed"
                    /\ main_pc' = "done"
               ELSE /\ stdout' = Append(stdout, HEADER)
                    /\ end_reason' = end_reason
                    /\ main_pc' = "input"
    /\ Discard
    /\ UNCHANGED << lines_read, asked, answers, ingestVars >>

\* chat.py:97  input("PERGUNTA: ") writes its prompt and waits
Prompt ==
    /\ main_pc = "input"
    /\ stdout' = Append(stdout, INPUT_PROMPT)
    /\ main_pc' = "reading"
    /\ UNCHANGED << chain, lines_read, asked, answers, end_reason,
                    main_escaped, queryVars, ingestVars >>

\* chat.py:97-111  a line arrives: ignored, exit command, or a question
\* handed to search_prompt
ReadLine ==
    /\ main_pc = "reading"
    /\ Len(lines_read) < MaxLines
    /\ \E line \in ChatLines :
         /\ lines_read' = Append(lines_read, line)
         /\ LET branch == input_branch(line)
            IN  \/ /\ branch = "blank"
                   /\ main_pc' = "input"
                   /\ UNCHANGED << asked, end_reason, queryVars >>
                \/ /\ branch = "exit"
                   /\ main_pc' = "done"
                   /\ end_reason' = "exit"
                   /\ UNCHANGED << asked, queryVars >>
                \/ /\ branch = "ask"
                   /\ Call(Str(Strip(line)))
                   /\ asked' = Append(asked, Strip(line))
                   /\ main_pc' = "answer_call"
                   /\ end_reason' = end_reason
    /\ UNCHANGED << chain, answers, stdout, main_escaped, ingestVars >>

\* chat.py:98-100, 119-121  input() raises: end of input or an interrupt
ReadRaises ==
    /\ main_pc = "reading"
    /\ \E type \in InputErrors :
         /\ end_reason' = type
         /\ LET h == input_handler(type)
            IN  \/ /\ h = "break"
                   /\ UNCHANGED << stdout, main_escaped >>
                \/ /\ h = "interrupt"
                   /\ stdout' = Append(stdout, << "\n" >>)
                   /\ main_escaped' = main_escaped
                \/ /\ h = "unhandled"
                   /\ stdout' = stdout
                   /\ main_escaped' = TRUE
    /\ main_pc' = "done"
    /\ UNCHANGED << chain, lines_read, asked, answers, queryVars,
                    ingestVars >>

\* chat.py:111-117  search_prompt(question) has returned: print the answer
\* or the error line, then loop
MainAnswer ==
    /\ main_pc = "answer_call"
    /\ pc = "returned"
    /\ IF escaped
       THEN /\ main_escaped' = TRUE
            /\ end_reason' = "raised"
            /\ main_pc' = "done"
            /\ UNCHANGED << answers, stdout >>
       ELSE /\ answers' = Append(answers, retval)
            /\ stdout' = Append(stdout, answer_line(retval))
            /\ main_pc' = "input"
            /\ UNCHANGED << end_reason, main_escaped >>
    /\ Discard
    /\ UNCHANGED << chain, lines_read, asked, ingestVars >>

NextChat ==
    \/ MainStart
    \/ MainCheckChain
    \/ Prompt
    \/ ReadLine
    \/ ReadRaises
    \/ MainAnswer
    \/ GetEmbeddings
    \/ NewPGVector
    \/ GetLlm
    \/ CheckQuestion
    \/ SearchSimilar
    \/ BuildContext
    \/ FormatPrompt
    \/ Invoke
    \/ ReturnContent
    \/ Except

SpecChat ==
    Init /\ [][NextChat]_vars

\* main is one thread of blocking calls: a statement that can run does run,
\* input() returns a line or raises once the input has ended, and every
\* collaborator of search_prompt returns or raises; every step moves the
\* position of main or of search_prompt
SpecChatFair ==
    SpecChat /\ WF_<< pc, main_pc >>(NextChat)

---------------------------------------------------------------------------
(* C12-C16: the chat loop                                                  *)

Last(seq) ==
    seq[Len(seq)]

\* a line that is an exit command once trimmed and lowercased
IsExitLine(line) ==
    Lower(Strip(line)) \in { << "sair" >>, << "exit" >>, << "quit" >> }

\* a line that is neither empty after trimming nor an exit command
IsQuestionLine(line) ==
    Strip(line) # << >> /\ ~IsExitLine(line)

\* the trimmed question lines among the lines read, in input order
RECURSIVE QuestionsIn(_)
QuestionsIn(lines) ==
    IF lines = << >> THEN << >>
    ELSE LET rest == QuestionsIn(SubSeq(lines, 1, Len(lines) - 1))
         IN  IF IsQuestionLine(Last(lines))
             THEN Append(rest, Strip(Last(lines)))
             ELSE rest

\* the lines of the output that carry the RESPOSTA: label
RECURSIVE Labelled(_)
Labelled(out) ==
    IF out = << >> THEN << >>
    ELSE LET rest == Labelled(SubSeq(out, 1, Len(out) - 1))
         IN  IF \/ Last(out)[1] = "RESPOSTA: "
                \/ Last(out)[1] = "RESPOSTA: Erro ao processar sua pergunta. Tente novamente."
             THEN Append(rest, Last(out))
             ELSE rest

\* the output line the claim expects for a value search_prompt returned
ExpectedLine(v) ==
    IF v.kind = "str" /\ v.text # << >>
    THEN << "RESPOSTA: " >> \o v.text \o << "\n" >>
    ELSE << "RESPOSTA: Erro ao processar sua pergunta. Tente novamente.", "\n" >>

C13_ExitCommand ==
    /\ \A i \in 1..Len(lines_read) :
         IsExitLine(lines_read[i]) =>
           /\ i = Len(lines_read)
           /\ main_pc = "done"
           /\ end_reason = "exit"
    /\ \A i \in 1..Len(asked) : ~IsExitLine(asked[i])
    /\ \A i \in 1..Len(lines_read) :
         lines_read[i] = << "sair", " ", "agora" >> =>
           /\ \E j \in 1..Len(asked) : asked[j] = lines_read[i]
           /\ ~(i = Len(lines_read) /\ end_reason = "exit")

\* a line holding an exit word among other text was answered, then an exit
\* command in capitals with surrounding blanks ended the loop
C13_Witness ==
    /\ lines_read = << << "sair", " ", "agora" >>, << " ", "SAIR", " " >> >>
    /\ main_pc = "done"
    /\ Len(answers) = 1

\* C14: reading a line that is empty or only whitespace calls nothing,
\* prints nothing and leaves the loop about to read the next line.
C14_BlankLineIgnored ==
    [][ (lines_read' # lines_read /\ Strip(Last(lines_read')) = << >>) =>
          /\ asked' = asked
          /\ answers' = answers
          /\ stdout' = stdout
          /\ main_pc' = "input"
          /\ end_reason' = end_reason
          /\ UNCHANGED queryVars ]_vars

\* a whitespace-only line was read, then a question, which is the only one
\* sent
C14_Witness ==
    /\ Len(lines_read) = 2
    /\ lines_read[1] = << " " >>
    /\ asked = << Strip(lines_read[2]) >>
    /\ Len(stdout) = 3

\* C15: when the initialize-only call returned a false value, main has
\* printed the failure message and nothing else, has read no line, has sent
\* no question and has returned.
C15_InitFailure ==
    (chain # Unset /\ chain.kind \notin { "True" }
                   /\ ~(chain.kind = "str" /\ chain.text # << >>)) =>
      /\ main_pc = "done"
      /\ ~main_escaped
      /\ stdout = << << "Não foi possível iniciar o chat. Verifique os erros de inicialização." >> >>
      /\ lines_read = << >>
      /\ asked = << >>
      /\ question = None

\* the initialize-only call returned None and main is over
C15_Witness ==
    /\ chain = None
    /\ main_pc = "done"
    /\ stdout # << >>

\* C16: when input() raised end-of-input or an interrupt, main has returned
\* normally, no call of search_prompt is pending or was added for that read,
\* and after the prompt of that read nothing was printed but, for an
\* interrupt, a newline.
C16_EndOfInput ==
    end_reason \in { "EOFError", "KeyboardInterrupt" } =>
      /\ main_pc = "done"
      /\ ~main_escaped
      /\ asked = QuestionsIn(lines_read)
      /\ Len(answers) = Len(asked)
      /\ pc = "returned"
      /\ LET n == Len(stdout)
         IN  IF end_reason = "EOFError"
             THEN stdout[n] = << "PERGUNTA: " >>
             ELSE /\ stdout[n] = << "\n" >>
                  /\ stdout[n - 1] = << "PERGUNTA: " >>

\* input ended after one answered question
C16_Witness ==
    /\ end_reason = "EOFError"
    /\ Len(answers) = 1
    /\ Len(lines_read) = 1

---------------------------------------------------------------------------
(* The text of a page or chunk, character by character.  A text of a       *)
(* thousand characters is kept as its runs: "AAA  B" is three runs,        *)
(* ("A", 3), (" ", 2), ("B", 1); two adjacent runs never share their       *)
(* character.                                                              *)

\* Python: ch * n
Rep(ch, n) ==
    IF n <= 0 THEN << >> ELSE << [ch |-> ch, n |-> n] >>

\* Python: a + b
RunCat(a, b) ==
    IF a = << >> THEN b
    ELSE IF b = << >> THEN a
    ELSE IF a[Len(a)].ch = b[1].ch
         THEN SubSeq(a, 1, Len(a) - 1)
              \o << [ch |-> b[1].ch, n |-> a[Len(a)].n + b[1].n] >>
              \o Tail(b)
    ELSE a \o b

\* Python: "".join(parts)
RECURSIVE RunJoin(_)
RunJoin(parts) ==
    IF parts = << >> THEN << >>
    ELSE RunCat(Head(parts), RunJoin(Tail(parts)))

\* Python: len(text)
RECURSIVE RunLen(_)
RunLen(text) ==
    IF text = << >> THEN 0 ELSE Head(text).n + RunLen(Tail(text))

\* Python: text[lo - 1 : hi], the characters lo..hi counted from 1
RECURSIVE RunSub(_, _, _)
RunSub(text, lo, hi) ==
    IF text = << >> THEN << >>
    ELSE LET n == Head(text).n
             a == IF lo < 1 THEN 1 ELSE lo
             b == IF hi > n THEN n ELSE hi
         IN  Rep(Head(text).ch, b - a + 1) \o RunSub(Tail(text), lo - n, hi - n)

\* Python: text.strip()
RunStrip(text) ==
    LET solid == { i \in 1..Len(text) : text[i].ch \notin Whitespace }
    IN  IF solid = {} THEN << >>
        ELSE SubSeq(text,
                    CHOOSE i \in solid : \A j \in solid : i <= j,
                    CHOOSE i \in solid : \A j \in solid : j <= i)

\* Python: list(text)
Chars(text) ==
    [ i \in 1..RunLen(text) |-> RunSub(text, i, i) ]

---------------------------------------------------------------------------
(* RecursiveCharacterTextSplitter as split_documents configures it         *)
(* (ingest.py:127-133): separators "\n\n", "\n", " ", "", the separator    *)
(* kept at the start of the piece that follows it, chunks stripped,        *)
(* length_function=len.  chunk_size and chunk_overlap are parameters.      *)

\* a separator is w times the character ch; w = 0 is the empty separator
SEPARATORS ==
    << [ch |-> "\n", w |-> 2], [ch |-> "\n", w |-> 1],
       [ch |-> " ", w |-> 1], [ch |-> "", w |-> 0] >>

\* re.search(separator, text)
re_search(separator, text) ==
    \E i \in 1..Len(text) :
        text[i].ch = separator.ch /\ text[i].n >= separator.w

\* re.split with the separator kept at the start of the following piece,
\* empty pieces dropped; out: pieces closed so far, cur: the open piece
RECURSIVE split_with_regex(_, _, _, _)
split_with_regex(text, separator, out, cur) ==
    IF text = << >>
    THEN IF cur = << >> THEN out ELSE Append(out, cur)
    ELSE LET r == Head(text)
         IN  IF r.ch = separator.ch /\ r.n >= separator.w
             THEN LET matches == r.n \div separator.w
                      one == Rep(separator.ch, separator.w)
                      closed == IF cur = << >> THEN out ELSE Append(out, cur)
                  IN  split_with_regex(Tail(text), separator,
                          closed \o [ i \in 1..(matches - 1) |-> one ],
                          Rep(separator.ch, separator.w + (r.n % separator.w)))
             ELSE split_with_regex(Tail(text), separator, out,
                                   RunCat(cur, << r >>))

\* _join_docs with separator "": None is the empty text
join_docs(docs) ==
    RunStrip(RunJoin(docs))

\* len(separator) of _merge_splits: the separator is kept in the pieces, so
\* the pieces are merged with ""
separator_len ==
    RunLen(<< >>)

\* _merge_splits, its while loop: pieces leave the front of current_doc
RECURSIVE drop_front(_, _, _, _, _)
drop_front(current_doc, total, len, size, overlap) ==
    IF \/ total > overlap
       \/ /\ total + len
               + (IF Len(current_doc) > 0 THEN separator_len ELSE 0) > size
          /\ total > 0
    THEN drop_front(Tail(current_doc),
                    total - (RunLen(Head(current_doc))
                        + (IF Len(current_doc) > 1 THEN separator_len ELSE 0)),
                    len, size, overlap)
    ELSE [current_doc |-> current_doc, total |-> total]

\* _merge_splits, its for loop over the pieces
RECURSIVE merge_loop(_, _, _, _, _, _)
merge_loop(splits, docs, current_doc, total, size, overlap) ==
    IF splits = << >>
    THEN LET doc == join_docs(current_doc)
         IN  IF doc = << >> THEN docs ELSE Append(docs, doc)
    ELSE LET d == Head(splits)
             len == RunLen(d)
             full == total + len
                       + (IF Len(current_doc) > 0 THEN separator_len ELSE 0)
                       > size
             doc == join_docs(current_doc)
             flushed == IF full /\ Len(current_doc) > 0 /\ doc # << >>
                        THEN Append(docs, doc) ELSE docs
             kept == IF full /\ Len(current_doc) > 0
                     THEN drop_front(current_doc, total, len, size, overlap)
                     ELSE [current_doc |-> current_doc, total |-> total]
             grown == Append(kept.current_doc, d)
         IN  merge_loop(Tail(splits), flushed, grown,
                 kept.total + len
                   + (IF Len(grown) > 1 THEN separator_len ELSE 0),
                 size, overlap)

merge_splits(splits, size, overlap) ==
    merge_loop(splits, << >>, << >>, 0, size, overlap)

\* _merge_splits(list(text), ""): with pieces of one character the loop
\* closes a chunk each time size characters are held and keeps the last
\* overlap of them, so the chunks are the windows of size characters that
\* start every size - overlap characters; start counts from 0
RECURSIVE merge_chars(_, _, _, _)
merge_chars(text, start, size, overlap) ==
    LET n == RunLen(text)
        doc == RunStrip(RunSub(text, start + 1, start + size))
        docs == IF doc = << >> THEN << >> ELSE << doc >>
    IN  IF start + size >= n
        THEN docs
        ELSE docs \o merge_chars(text, start + size - overlap, size, overlap)

\* _split_text: the first separator found in the text splits it; pieces
\* shorter than size are merged, the others are split again with the
\* separators that remain
RECURSIVE split_text(_, _, _, _)
RECURSIVE split_loop(_, _, _, _, _, _)
split_loop(splits, good_splits, final_chunks, new_separators, size, overlap) ==
    LET merged == IF good_splits = << >> THEN final_chunks
                  ELSE final_chunks \o merge_splits(good_splits, size, overlap)
    IN  IF splits = << >> THEN merged
        ELSE LET s == Head(splits)
             IN  IF RunLen(s) < size
                 THEN split_loop(Tail(splits), Append(good_splits, s),
                                 final_chunks, new_separators, size, overlap)
                 ELSE split_loop(Tail(splits), << >>,
                          merged \o (IF new_separators = << >> THEN << s >>
                                     ELSE split_text(s, new_separators,
                                                     size, overlap)),
                          new_separators, size, overlap)

split_text(text, separators, size, overlap) ==
    LET found == { i \in 1..Len(separators) :
                     separators[i].w = 0 \/ re_search(separators[i], text) }
        first == IF found = {} THEN Len(separators)
                 ELSE CHOOSE i \in found : \A j \in found : i <= j
        separator == separators[first]
        new_separators == IF found = {} \/ separator.w = 0 THEN << >>
                          ELSE SubSeq(separators, first + 1, Len(separators))
    IN  IF separator.w = 0
        THEN IF size > 1 THEN merge_chars(text, 0, size, overlap)
             ELSE Chars(text)
        ELSE split_loop(split_with_regex(text, separator, << >>, << >>),
                        << >>, << >>, new_separators, size, overlap)

\* TextSplitter.split_documents: the chunks of every document, in order
RECURSIVE create_documents(_, _, _)
create_documents(pages, size, overlap) ==
    IF pages = << >> THEN << >>
    ELSE LET texts == split_text(Head(pages).page_content, SEPARATORS,
                                 size, overlap)
         IN  [ i \in 1..Len(texts) |-> [page_content |-> texts[i]] ]
             \o create_documents(Tail(pages), size, overlap)

---------------------------------------------------------------------------
(* The merge loop against its windows, for small sizes                     *)

SmallSizes ==
    { << 2, 0 >>, << 2, 1 >>, << 3, 1 >>, << 4, 0 >>, << 4, 2 >>, << 5, 2 >> }

SmallTexts ==
    { RunCat(RunCat(Rep(" ", a), Rep("A", b)), RunCat(Rep("\n", c), Rep("B", d))) :
        a \in 0..1, b \in 0..7, c \in 0..2, d \in 0..7 }

\* for pieces of one character _merge_splits produces the windows
MergeCharsIsMergeSplits ==
    \A p \in SmallSizes : \A text \in SmallTexts :
        merge_splits(Chars(text), p[1], p[2]) = merge_chars(text, 0, p[1], p[2])

---------------------------------------------------------------------------
(* ingest.py: ingest_pdf (ingest.py:203-250) and the command entry point   *)
(* (ingest.py:260-270)                                                     *)

MaxPages ==
    2

\* ingest.py:60
CHUNK_SIZE ==
    1000

\* ingest.py:63
CHUNK_OVERLAP ==
    150

\* what PyPDFLoader may extract from a page: nothing, blanks, a sentence,
\* unbroken text around CHUNK_SIZE, and long text with blanks or paragraphs
PageContents ==
    { << >>,
      RunCat(Rep(" ", 1), Rep("\n", 1)),
      Rep("A", 40),
      Rep("A", CHUNK_SIZE),
      Rep("A", CHUNK_SIZE + 1),
      Rep("A", CHUNK_SIZE + 500),
      Rep("A", 2500),
      RunCat(Rep("A", CHUNK_SIZE), Rep(" ", 1)),
      RunCat(RunCat(Rep("A", 600), Rep(" ", 1)), Rep("B", 600)),
      RunCat(RunCat(Rep("A", 1200), Rep("\n", 2)), Rep("B", 30)) }

\* loader.load(): one Document per page
PageSeqs ==
    UNION { [1..n -> [page_content : PageContents]] : n \in 0..MaxPages }

\* a bug: the splitter is built without chunk_size and chunk_overlap and
\* works with its defaults
split_documents_default_size(pages) ==
    create_documents(pages, 4000, 200)

\* a bug: every page becomes one chunk, whatever its length
split_documents_whole_pages(pages) ==
    [ i \in 1..Len(pages) |-> [page_content |-> pages[i].page_content] ]

\* a bug: an empty input yields one empty chunk
split_documents_empty_chunk(pages) ==
    IF pages = << >> THEN << [page_content |-> << >>] >>
    ELSE create_documents(pages, CHUNK_SIZE, CHUNK_OVERLAP)

\* ingest.py:127-133  RecursiveCharacterTextSplitter(chunk_size=CHUNK_SIZE,
\* chunk_overlap=CHUNK_OVERLAP, length_function=len).split_documents(documents)
split_documents(pages) ==
    create_documents(pages, CHUNK_SIZE, CHUNK_OVERLAP)

NOT_FOUND ==
    [type |-> "FileNotFoundError",
     msg |-> << "Arquivo PDF não encontrado: ", "document.pdf" >>]

NO_TEXT ==
    [type |-> "ValueError",
     msg |-> << "PDF ", "não contém texto", " extraível." >>]

NO_CHUNKS_WARNING ==
    << "Aviso: Nenhum conteúdo de texto encontrado para indexar." >>

\* a bug: the existence test is missing
load_pdf_branch_no_test(exists) ==
    "load"

\* ingest.py:90-94  if not os.path.exists(path): raise FileNotFoundError
load_pdf_branch(exists) ==
    IF ~exists THEN "not_found" ELSE "load"

\* a bug: an empty document list goes on to the splitter
documents_branch_no_test(pages) ==
    "split"

\* ingest.py:236-237  if not documents: raise ValueError
documents_branch(pages) ==
    IF pages = << >> THEN "no_text" ELSE "split"

\* a bug: the test for an empty chunk list is missing
chunks_branch_always_store(cs) ==
    "store"

\* ingest.py:242-244  if not chunks: print warning; return 0
chunks_branch(cs) ==
    IF cs = << >> THEN "no_chunks" ELSE "store"

\* a bug: the pages are counted instead of the chunks
ingest_count_pages(pages, cs) ==
    Len(pages)

\* ingest.py:250  return len(chunks)
ingest_count(pages, cs) ==
    Len(cs)

\* a bug: the except clause of store_embeddings lets the error through as it is
store_embeddings_except_reraise(e) ==
    e

\* store_embeddings, its except clause (ingest.py:195-200)
store_embeddings_except(e) ==
    IF HasWord(Lower(e.msg), "connect") \/ HasWord(Lower(e.msg), "connection")
    THEN [type |-> "ConnectionError", msg |-> CONNECTION_MESSAGE]
    ELSE e

\* ingest.py:262-270  the except clauses of the entry point, first match wins
entry_handler(e) ==
    IF Catches("FileNotFoundError", e.type) THEN "not_found"
    ELSE IF Catches("ValueError", e.type) THEN "value"
    ELSE IF Catches("ConnectionError", e.type) THEN "connection"
    ELSE IF Catches("Exception", e.type) THEN "generic"
    ELSE "unhandled"

\* an exception leaves ingest_pdf: orig is what a collaborator raised (NoExc
\* when ingest.py raises by itself), e what the caller receives
IngestRaise(orig, e) ==
    /\ ing_cause' = orig
    /\ ing_exc' = e
    /\ ing_pc' = "raised"

\* ingest.py:233 -> 90-95  documents = load_pdf(PDF_PATH)
LoadPdf ==
    /\ ing_pc = "idle"
    /\ LET branch == load_pdf_branch(path_exists)
       IN  \/ /\ branch = "not_found"
              /\ IngestRaise(NoExc, NOT_FOUND)
              /\ UNCHANGED << documents, ing_trace >>
           \/ /\ branch = "load"
              /\ ing_trace' = Append(ing_trace, "PyPDFLoader.load")
              /\ \/ /\ \E pages \in PageSeqs :
                         documents' = [loaded |-> TRUE, pages |-> pages]
                    /\ ing_pc' = "check_documents"
                    /\ UNCHANGED << ing_exc, ing_cause >>
                 \/ /\ \E e \in Raisable : IngestRaise(e, e)
                    /\ documents' = documents
    /\ UNCHANGED << path_exists, chunks, stored, ing_ret, ing_printed,
                    queryVars, chatVars >>

\* ingest.py:236-237  if not documents: raise ValueError
CheckDocuments ==
    /\ ing_pc = "check_documents"
    /\ LET branch == documents_branch(documents.pages)
       IN  \/ /\ branch = "no_text"
              /\ IngestRaise(NoExc, NO_TEXT)
           \/ /\ branch = "split"
              /\ ing_pc' = "split_documents"
              /\ UNCHANGED << ing_exc, ing_cause >>
    /\ UNCHANGED << path_exists, documents, chunks, stored, ing_trace,
                    ing_ret, ing_printed, queryVars, chatVars >>

\* ingest.py:240 -> 127-133  chunks = split_documents(documents)
SplitDocuments ==
    /\ ing_pc = "split_documents"
    /\ ing_trace' = Append(ing_trace, "split_documents")
    /\ chunks' = split_documents(documents.pages)
    /\ ing_pc' = "check_chunks"
    /\ UNCHANGED << path_exists, documents, stored, ing_ret, ing_exc,
                    ing_cause, ing_printed, queryVars, chatVars >>

\* ingest.py:242-244  if not chunks: print warning; return 0
CheckChunks ==
    /\ ing_pc = "check_chunks"
    /\ LET branch == chunks_branch(chunks)
       IN  \/ /\ branch = "no_chunks"
              /\ ing_printed' = Append(ing_printed, NO_CHUNKS_WARNING)
              /\ ing_ret' = 0
              /\ ing_pc' = "returned"
           \/ /\ branch = "store"
              /\ ing_pc' = "get_embeddings"
              /\ UNCHANGED << ing_printed, ing_ret >>
    /\ UNCHANGED << path_exists, documents, chunks, stored, ing_trace,
                    ing_exc, ing_cause, queryVars, chatVars >>

\* ingest.py:247 -> 152-155  embeddings = get_embeddings(): no try around it
IngestEmbeddings ==
    /\ ing_pc = "get_embeddings"
    /\ ing_trace' = Append(ing_trace, "OpenAIEmbeddings")
    /\ \/ /\ ing_pc' = "store_embeddings"
          /\ UNCHANGED << ing_exc, ing_cause >>
       \/ \E e \in Raisable : IngestRaise(e, e)
    /\ UNCHANGED << path_exists, documents, chunks, stored, ing_ret,
                    ing_printed, queryVars, chatVars >>

\* ingest.py:248 -> 187-200  store_embeddings(chunks, embeddings)
StoreEmbeddings ==
    /\ ing_pc = "store_embeddings"
    /\ ing_trace' = Append(ing_trace, "from_documents")
    /\ stored' = chunks
    /\ \/ /\ ing_pc' = "return"
          /\ UNCHANGED << ing_exc, ing_cause >>
       \/ \E e \in Raisable : IngestRaise(e, store_embeddings_except(e))
    /\ UNCHANGED << path_exists, documents, chunks, ing_ret, ing_printed,
                    queryVars, chatVars >>

\* ingest.py:250  return len(chunks)
ReturnCount ==
    /\ ing_pc = "return"
    /\ ing_ret' = ingest_count(documents.pages, chunks)
    /\ ing_pc' = "returned"
    /\ UNCHANGED << path_exists, documents, chunks, stored, ing_trace,
                    ing_exc, ing_cause, ing_printed, queryVars, chatVars >>

\* ingest.py:260-270  the entry point prints the count or the error
EntryPoint ==
    /\ \/ /\ ing_pc = "returned"
          /\ ing_printed' = Append(ing_printed, << "Ingestão concluída: ",
                                ing_ret, " chunks processados" >>)
       \/ /\ ing_pc = "raised"
          /\ LET h == entry_handler(ing_exc)
             IN  \/ /\ h \in { "not_found", "value", "connection" }
                    /\ ing_printed' =
                         Append(ing_printed, << "Erro: " >> \o ing_exc.msg)
                 \/ /\ h = "generic"
                    /\ ing_printed' = Append(ing_printed,
                         << "Erro ao comunicar com serviço externo. Tente novamente. (" >>
                         \o ing_exc.msg \o << ")" >>)
                 \/ /\ h = "unhandled"
                    /\ ing_printed' = ing_printed
    /\ ing_pc' = "exit"
    /\ UNCHANGED << path_exists, documents, chunks, stored, ing_trace,
                    ing_ret, ing_exc, ing_cause, queryVars, chatVars >>

InitIngest ==
    /\ pc = "idle"
    /\ question = None
    /\ Cleared
    /\ ChatIdle
    /\ IngestIdle

NextIngest ==
    \/ LoadPdf
    \/ CheckDocuments
    \/ SplitDocuments
    \/ CheckChunks
    \/ IngestEmbeddings
    \/ StoreEmbeddings
    \/ ReturnCount
    \/ EntryPoint

SpecIngest ==
    InitIngest /\ [][NextIngest]_vars

\* split_documents on its own: every bounded sequence of Documents
InitSplit ==
    /\ pc = "idle"
    /\ question = None
    /\ Cleared
    /\ ChatIdle
    /\ ing_pc = "split_documents"
    /\ path_exists = TRUE
    /\ \E pages \in PageSeqs : documents = [loaded |-> TRUE, pages |-> pages]
    /\ chunks = << >>
    /\ stored = << >>
    /\ ing_trace = << >>
    /\ ing_ret = -1
    /\ ing_exc = NoExc
    /\ ing_cause = NoExc
    /\ ing_printed = << >>

NextSplit ==
    SplitDocuments

SpecSplit ==
    InitSplit /\ [][NextSplit]_vars

---------------------------------------------------------------------------
(* one process runs either the ingestion command or the query pipeline     *)

QueryStep ==
    /\ ing_pc = "idle"
    /\ Next

IngestStep ==
    /\ pc = "idle"
    /\ NextIngest

NextPrograms ==
    \/ QueryStep
    \/ IngestStep

SpecPrograms ==
    InitIngest /\ [][NextPrograms]_vars

---------------------------------------------------------------------------
(* C17-C20: ingestion                                                      *)

\* C17: when ingest_pdf has returned after a run in which the file existed,
\* the loader yielded documents, the splitter yielded at least one chunk and
\* no stage failed, the PDF load, the embedding-client construction and the
\* store write were each invoked exactly once, in that order (the split
\* between the first two), and the returned count is the number of chunks
\* handed to the store, greater than zero.
C17_SuccessfulIngest ==
    (ing_pc \in { "returned", "exit" } /\ ing_exc = NoExc /\ chunks # << >>) =>
      /\ ing_trace = << "PyPDFLoader.load", "split_documents",
                        "OpenAIEmbeddings", "from_documents" >>
      /\ stored = chunks
      /\ ing_ret = Len(stored)
      /\ ing_ret > 0

\* two pages gave one chunk, which was stored and counted
C17_Witness ==
    /\ ing_pc = "returned"
    /\ Len(documents.pages) = 2
    /\ Len(stored) = 1
    /\ ing_ret = 1

\* C18: when the document path does not exist, ingest_pdf never returns a
\* count and invokes no collaborator; once it has run it has raised
\* FileNotFoundError.
C18_MissingFile ==
    ~path_exists =>
      /\ ing_trace = << >>
      /\ stored = << >>
      /\ ~documents.loaded
      /\ ing_ret = -1
      /\ ing_pc \in { "idle", "raised", "exit" }
      /\ ing_pc # "idle" => ing_exc.type = "FileNotFoundError"

\* the path did not exist and ingest_pdf has raised
C18_Witness ==
    /\ ~path_exists
    /\ ing_pc = "raised"
    /\ ing_exc.type = "FileNotFoundError"

\* C19: when the loader has yielded zero Documents, ingest_pdf does nothing
\* but raise ValueError with a message containing "não contém texto": the
\* splitter, the embedding client and the store are never invoked.
C19_NoDocuments ==
    (documents.loaded /\ documents.pages = << >>) =>
      /\ ing_trace = << "PyPDFLoader.load" >>
      /\ chunks = << >>
      /\ stored = << >>
      /\ ing_ret = -1
      /\ ing_pc \in { "check_documents", "raised", "exit" }
      /\ ing_pc # "check_documents" =>
           /\ ing_exc.type = "ValueError"
           /\ Contains(ing_exc.msg, << "não contém texto" >>)

\* the loader returned an empty list and ingest_pdf has raised
C19_Witness ==
    /\ documents.loaded
    /\ documents.pages = << >>
    /\ ing_pc = "raised"

\* the lowercased text of an error holds "connect" or "connection"
MentionsConnection(e) ==
    \E i \in 1..Len(e.msg) :
        e.msg[i] \in { "connect", "connection", "Connection" }

\* what the claim expects the two except clauses to raise for an error e
Reraised(e) ==
    IF MentionsConnection(e)
    THEN [type |-> "ConnectionError",
          msg |-> << "Erro ao conectar ao banco de dados. Verifique se está rodando." >>]
    ELSE e

\* C20: an exception raised inside get_vector_store (query) or inside the
\* store write of store_embeddings (ingestion) reaches the caller as a
\* ConnectionError with the fixed message exactly when its lowercased text
\* holds "connect" or "connection", and unchanged otherwise; in ingestion it
\* leaves ingest_pdf, which returns no count.
C20_ConnectionHeuristic ==
    /\ (cause # NoExc /\ Last(trace) \in { "OpenAIEmbeddings", "PGVector" }) =>
         /\ exc = Reraised(cause)
         /\ pc \in { "except", "returned" }
    /\ (ing_cause # NoExc /\ Last(ing_trace) = "from_documents") =>
         /\ ing_exc = Reraised(ing_cause)
         /\ ing_pc \in { "raised", "exit" }
         /\ ing_ret = -1

\* the store write failed with a plain Exception whose text mentions a
\* connection, and ingest_pdf raised the ConnectionError
C20_Witness ==
    /\ ing_pc = "raised"
    /\ ing_trace # << >>
    /\ Last(ing_trace) = "from_documents"
    /\ ing_cause.type = "Exception"
    /\ ing_exc.type = "ConnectionError"

---------------------------------------------------------------------------
(* C21-C23: split_documents, checked under SpecSplit                       *)

\* split_documents has returned
Split ==
    ing_pc = "check_chunks"

\* the documents whose content is longer than CHUNK_SIZE
LongDocuments ==
    { i \in 1..Len(documents.pages) :
        RunLen(documents.pages[i].page_content) > 1000 }

\* the documents whose content is longer than CHUNK_SIZE once trimmed
LongTrimmedDocuments ==
    { i \in 1..Len(documents.pages) :
        RunLen(RunStrip(documents.pages[i].page_content)) > 1000 }

\* C21: every chunk split_documents produces has at most
\* CHUNK_SIZE + CHUNK_OVERLAP = 1150 characters.
C21_ChunkLength ==
    \A i \in 1..Len(chunks) : RunLen(chunks[i].page_content) <= 1000 + 150

\* a page of 2500 characters was split and a chunk of 1000 is among the
\* chunks
C21_Witness ==
    /\ Split
    /\ \E i \in 1..Len(documents.pages) :
         RunLen(documents.pages[i].page_content) = 2500
    /\ \E i \in 1..Len(chunks) : RunLen(chunks[i].page_content) = 1000

\* C22, as stated: every Document longer than CHUNK_SIZE gives at least two
\* chunks, so the chunks number at least twice such Documents.
C22_LongDocumentSplit ==
    Split => Len(chunks) >= 2 * Cardinality(LongDocuments)

\* C22, amended: every Document whose content is longer than CHUNK_SIZE
\* after trimming leading and trailing whitespace gives at least two chunks.
C22_LongTrimmedDocumentSplit ==
    Split => Len(chunks) >= 2 * Cardinality(LongTrimmedDocuments)

\* one Document of CHUNK_SIZE + 500 characters without whitespace gave two
\* chunks
C22_Witness ==
    /\ Split
    /\ documents.pages = << [page_content |-> Rep("A", 1500)] >>
    /\ Len(chunks) = 2

\* C23: for an empty sequence of Documents split_documents returns an empty
\* sequence of chunks, without an error.
C23_EmptyInput ==
    (Split /\ documents.pages = << >>) =>
      /\ chunks = << >>
      /\ ing_exc = NoExc

\* split_documents has returned for the empty sequence
C23_Witness ==
    /\ Split
    /\ documents.pages = << >>
    /\ ing_trace = << "split_documents" >>

---------------------------------------------------------------------------
(* C29: ingestion of pages without text, checked under SpecIngest          *)

\* C29: once the splitter has returned zero chunks for a non-empty Document
\* sequence, ingest_pdf invokes nothing more, raises nothing and, when it has
\* gone on, has printed the warning and returned 0; and whenever the store
\* write was invoked it was handed a non-empty chunk sequence.
C29_NoChunks ==
    /\ (ing_trace # << >> /\ Last(ing_trace) = "split_documents"
          /\ chunks = << >>) =>
         /\ documents.pages # << >>
         /\ ing_trace = << "PyPDFLoader.load", "split_documents" >>
         /\ stored = << >>
         /\ ing_exc = NoExc
         /\ ing_pc \in { "check_chunks", "returned", "exit" }
         /\ ing_pc # "check_chunks" =>
              /\ ing_ret = 0
              /\ ing_printed[1] =
                   << "Aviso: Nenhum conteúdo de texto encontrado para indexar." >>
    /\ (\E i \in 1..Len(ing_trace) : ing_trace[i] = "from_documents") =>
         stored # << >>

\* two pages without text: ingest_pdf returned 0
C29_Witness ==
    /\ ing_pc = "returned"
    /\ Len(documents.pages) = 2
    /\ chunks = << >>
    /\ ing_ret = 0


---------------------------------------------------------------------------
(* C24: one search, then one language-model call, inside one answer call   *)

\* the step hands a new invocation of op to a collaborator
Invokes(op) ==
    /\ trace' # << >>
    /\ Len(trace') = Len(trace) + 1
    /\ trace'[Len(trace')] = op

\* C24: within one call the language model is invoked at most once, only
\* after the similarity search of that call has returned, with the prompt
\* formatted from exactly the results of that search and the question as
\* given; the similarity search is invoked at most once; once the similarity
\* search has raised, the language model is not invoked in that call.
C24_SearchThenInvoke ==
    /\ [][ Invokes("invoke") =>
             /\ ~InTrace("invoke")
             /\ Count(trace, << "similarity_search_with_score" >>) = 1
             /\ exc = NoExc
             /\ results = search_similar(store_returned)
             /\ search_query = question.text
             /\ llm_prompt' = format_prompt(build_context(results),
                                            question.text) ]_vars
    /\ [][ Invokes("similarity_search_with_score") =>
             /\ ~InTrace("similarity_search_with_score")
             /\ ~InTrace("invoke") ]_vars
    /\ [][ (exc # NoExc /\ pc # "returned") => trace' = trace ]_vars

\* the language model answered a padded question for which the search
\* returned two different documents
C24_Witness ==
    /\ pc = "return_content"
    /\ InTrace("invoke")
    /\ Len(results) = 2
    /\ results[1] # results[2]
    /\ question.text # Strip(question.text)
    /\ llm_prompt = formatted_prompt


---------------------------------------------------------------------------
(* C25: which failures of an answer call take the connection-error path    *)

\* the line of the dedicated connection-error path, with the fixed message
FixedConnectionLine ==
    << "Erro: ",
       "Erro ao conectar ao banco de dados. Verifique se está rodando." >>

\* the line of the generic service-communication failure for an error e
GenericLine(e) ==
    << "Erro ao comunicar com serviço externo. Tente novamente. (" >>
    \o e.msg \o << ")" >>

\* an answer call has returned after the collaborator invoked last raised
AnswerFailedAt(ops) ==
    /\ pc = "returned"
    /\ question.kind = "str"
    /\ Strip(question.text) # << >>
    /\ cause # NoExc
    /\ trace # << >>
    /\ Last(trace) \in ops

\* C25 as stated: an error whose lowercased message holds "connect", raised
\* by the vector-store call or by the language-model call of an answer, is
\* reported by the fixed connection-error line and by nothing else, and the
\* call returns None.
C25_ConnectionPath ==
    (AnswerFailedAt({ "PGVector", "similarity_search_with_score", "invoke" })
       /\ MentionsConnection(cause)) =>
         /\ printed = << FixedConnectionLine >>
         /\ retval = None

\* C25 as the code has it: the substring match covers only the construction
\* of the vector-store handle (embedding client and store constructor),
\* where a message holding "connect" gives the fixed connection-error line;
\* an error of the language-model construction, of the similarity search or
\* of the language-model call is not scanned: it is reported with its own
\* message, through the connection-error clause when it is a ConnectionError
\* and as a generic service-communication failure otherwise; the call
\* returns None in every case.
C25_ConstructionConnectionPath ==
    /\ (AnswerFailedAt({ "OpenAIEmbeddings", "PGVector" })
          /\ MentionsConnection(cause)) =>
            /\ printed = << FixedConnectionLine >>
            /\ retval = None
    /\ AnswerFailedAt({ "ChatOpenAI", "similarity_search_with_score",
                        "invoke" }) =>
            /\ printed = << IF cause.type = "ConnectionError"
                            THEN << "Erro: " >> \o cause.msg
                            ELSE GenericLine(cause) >>
            /\ retval = None

\* the store constructor failed with a plain Exception whose text mentions a
\* connection while a real question was being answered
C25_Witness ==
    /\ AnswerFailedAt({ "PGVector" })
    /\ cause.type = "Exception"
    /\ MentionsConnection(cause)
    /\ exc.type = "ConnectionError"
    /\ printed = << FixedConnectionLine >>


---------------------------------------------------------------------------
(* C26: fresh clients in every call, checked under SpecChat                *)

\* the three constructions, in the order search_prompt makes them
CONSTRUCTIONS ==
    << "OpenAIEmbeddings", "PGVector", "ChatOpenAI" >>

\* search_prompt is past the construction of its clients
PastConstruction ==
    \/ pc \in { "check_question", "search_similar", "build_context",
                "format_prompt", "invoke", "return_content" }
    \/ pc = "returned" /\ retval # Unset /\ exc = NoExc

\* the collaborators invoked so far are the three constructions, in order
\* and once each, followed by retrieval and generation only; the clients
\* exist once constructed and not before
ClientsInOrder ==
    /\ \A i \in 1..Len(trace) :
         IF i <= 3 THEN trace[i] = CONSTRUCTIONS[i]
         ELSE \A j \in 1..3 : trace[i] # CONSTRUCTIONS[j]
    /\ PastConstruction =>
         /\ Len(trace) >= 3
         /\ vector_store
         /\ llm
    /\ Len(trace) < 3 => ~llm
    /\ Len(trace) < 2 => ~vector_store

\* C26: every call of search_prompt, whatever its argument, starts with no
\* client and constructs the embedding client, the vector-store handle and
\* the language-model client, in this order and once each, before it looks
\* at the question or retrieves anything; nothing is kept from one call to
\* the next.
C26_FreshClients ==
    /\ ClientsInOrder
    /\ [][ ClientsInOrder' ]_vars
    /\ [][ (pc' = "get_embeddings" /\ pc # "get_embeddings") =>
             /\ trace' = << >>
             /\ vector_store' = FALSE
             /\ llm' = FALSE ]_vars
    /\ [][ (pc # pc' /\ pc \in { "idle", "returned" }) =>
             pc' = "get_embeddings" ]_vars

\* the initialize-only call succeeded, and the call for the first question
\* failed while it constructed its vector-store handle
C26_Witness ==
    /\ chain = True
    /\ main_pc = "answer_call"
    /\ pc = "returned"
    /\ question.kind = "str"
    /\ trace = << "OpenAIEmbeddings", "PGVector" >>
    /\ exc # NoExc
    /\ retval = None


---------------------------------------------------------------------------
(* C27: a failed query inside the chat loop, checked under SpecChat        *)

\* the call made for a question has returned after its similarity search or
\* its language-model call raised
QueryFailed ==
    /\ main_pc = "answer_call"
    /\ pc = "returned"
    /\ exc # NoExc
    /\ trace # << >>
    /\ Last(trace) \in { "similarity_search_with_score", "invoke" }

\* a failed query is answered by the fixed error line and the loop goes on;
\* no exception leaves search_prompt or main
FailedQueryHandled ==
    /\ ~escaped /\ ~main_escaped
    /\ [][ ~escaped' /\ ~main_escaped' ]_vars
    /\ [][ (QueryFailed /\ main_pc' # main_pc) =>
             /\ stdout' = Append(stdout, ERROR_LINE)
             /\ answers' = Append(answers, None)
             /\ main_pc' = "input"
             /\ end_reason' = "none" ]_vars
    /\ [][ (main_pc = "input" /\ main_pc' # main_pc) =>
             /\ main_pc' = "reading"
             /\ stdout' = Append(stdout, INPUT_PROMPT) ]_vars

\* the step leaves the loop because input() raised
LoopLeftByException ==
    /\ main_pc = "reading"
    /\ main_pc' = "done"
    /\ lines_read' = lines_read

---------------------------------------------------------------------------
(* C28: the prompt is a function of the question and of its results        *)

\* the prompt search_prompt builds for question q when the store returned
\* the scored documents `returned`: no other value enters it
PromptFor(q, returned) ==
    format_prompt(build_context(search_similar(returned)), q)

\* C28: whatever the session has read, asked, answered and printed before,
\* the prompt handed to the language model for a question is the one
\* determined by that question and by the documents the store returned for
\* it, so that two sessions with different histories send the same prompt
\* for the same question and the same retrieved results.
C28_PromptFromQuestionAndResults ==
    /\ InTrace("invoke") => llm_prompt = PromptFor(question.text, store_returned)
    /\ pc \in { "invoke", "return_content" } =>
         formatted_prompt = PromptFor(question.text, store_returned)

\* the second question of a session, after a first one that was answered
\* by the language model, has reached the language model with two retrieved
\* documents
C28_Witness ==
    /\ main_pc = "answer_call"
    /\ Len(asked) = 2
    /\ Len(answers) = 1
    /\ answers[1].kind = "str"
    /\ answers[1].text # << >>
    /\ InTrace("invoke")
    /\ Len(store_returned) = 2
    /\ llm_prompt # << >>


---------------------------------------------------------------------------
(* C30: main terminates, checked under SpecChatFair                        *)

\* an exit command is among the lines read
ExitRead ==
    \E i \in 1..Len(lines_read) : IsExitLine(lines_read[i])

\* C30: whatever lines are typed before the input ends, main returns, as
\* long as every call of search_prompt returns; a line is read only while
\* no exit command, end of input or interrupt has been met, and main does
\* nothing once it has returned.
C30_MainTerminates ==
    /\ <>(main_pc = "done" /\ ~main_escaped)
    /\ [][ lines_read' # lines_read =>
             /\ main_pc = "reading"
             /\ end_reason = "none"
             /\ ~ExitRead ]_vars
    /\ [][ main_pc = "done" => UNCHANGED vars ]_vars

\* two questions were answered, then the input ended and main returned
C30_Witness ==
    /\ main_pc = "done"
    /\ end_reason = "EOFError"
    /\ Len(lines_read) = 2
    /\ Len(answers) = 2
    /\ ~main_escaped

=============================================================================
